---- MODULE Spec2Model ----
(***************************************************************************)
(* github_recent_contributors.py: report_contributors and the three        *)
(* functions it drives (get_organization_members, get_repos,               *)
(* get_contributors), as one sequential run against the GitHub REST API.   *)
(* One action is one iteration of a pagination loop: the request, the      *)
(* response the server chooses, and everything the code does with it up to *)
(* the next request (or up to the end of the run).                         *)
(***************************************************************************)
EXTENDS Integers, Sequences, FiniteSets, TLC

(* ------------------------------------------------------------------ *)
(* Bounds of the environment                                           *)
(* ------------------------------------------------------------------ *)

\* Items (members, repositories, commits) the server serves during one run,
\* over all pages of all endpoints.  Every non-empty page holds at least one
\* item, so this also bounds the number of non-empty pages.
MaxItems == 4

\* Largest INTERESTING_REPOS set handed to the run.
MaxWanted == 2

(* ------------------------------------------------------------------ *)
(* Input domains                                                       *)
(* ------------------------------------------------------------------ *)

org_name == "org"

Logins == {"x", "y"}

RepoNames == {"A", "B"}

\* Names that may be asked for: "b" is repository B in another case, "Z" and
\* "z" name no repository and differ only in case.
WantedNames == {"b", "Z", "z"}

\* commit['commit']['author']['name']: a name, the blank name, or no name at
\* all (the key, or the whole author object, is missing).
Blank == ""
NoName == "<no name>"
AuthorNames == {"Jane Doe", Blank}

\* commit['author']: null when the commit is linked to no account.
NoAccount == "<null>"

Commits ==
    [name : AuthorNames, author : Logins \cup {NoAccount}]
    \cup {[name |-> NoName, author |-> NoAccount]}

\* HTTP status codes the server answers with.  A JSON list comes with 200 or
\* with another 2xx code, a JSON error object with a 4xx/5xx code.
ListStatuses == {200, 202}

ErrorStatuses == {403, 404, 500}

\* 'message' of a 403 body, as words.
Messages ==
    { <<"API", "rate", "limit", "exceeded">>,
      <<"API", "Rate", "Limit", "Exceeded">>,
      <<"You", "have", "exceeded", "a", "secondary", "rate", "limit">>,
      <<"Must", "have", "admin", "rights">> }

Repo(n) ==
    [name |-> n, owner |-> [login |-> org_name],
     html_url |-> <<"https://github.com", org_name, n>>]

\* Non-empty pages of at most k items drawn from S.
PagesOf(S, k) == UNION {[1..n -> S] : n \in 1..k}

(* ------------------------------------------------------------------ *)
(* Pure helpers                                                        *)
(* ------------------------------------------------------------------ *)

\* str.lower() on the strings of the model.
str_lower(s) ==
    CASE s = "A" -> "a"
      [] s = "B" -> "b"
      [] s = "Z" -> "z"
      [] s = "AB" -> "ab"
      [] s = "API" -> "api"
      [] s = "Rate" -> "rate"
      [] s = "Limit" -> "limit"
      [] s = "Exceeded" -> "exceeded"
      [] s = "You" -> "you"
      [] s = "Must" -> "must"
      [] s = "Unknown" -> "unknown"
      [] OTHER -> s

\* str.lower() on a text of several words.
text_lower(t) == [i \in DOMAIN t |-> str_lower(t[i])]

\* `needle in text`, on texts of words.
Contains(text, needle) ==
    \E i \in 0..(Len(text) - Len(needle)) :
        \A j \in 1..Len(needle) : text[i + j] = needle[j]

RECURSIVE Concat(_)
Concat(ps) == IF ps = <<>> THEN <<>> ELSE Head(ps) \o Concat(Tail(ps))

EmptyDict == [k \in {} |-> 0]

\* d.get(k, 0)
Get(d, k) == IF k \in DOMAIN d THEN d[k] ELSE 0

\* d[k] = v
Put(d, k, v) == [x \in DOMAIN d \cup {k} |-> IF x = k THEN v ELSE d[x]]

RECURSIVE SumOver(_, _)
SumOver(d, ks) ==
    IF ks = {} THEN 0
    ELSE LET k == CHOOSE x \in ks : TRUE IN d[k] + SumOver(d, ks \ {k})

\* sum(d.values())
Sum(d) == SumOver(d, DOMAIN d)

(* ------------------------------------------------------------------ *)
(* State                                                               *)
(* ------------------------------------------------------------------ *)

VARIABLES
    pc,                 \* the function the run is in, or "done" / "aborted"
    interesting_repos,  \* the filter handed to report_contributors ({} = None)
    response,           \* the last response received
    page,               \* page index of the running pagination loop
    members,            \* get_organization_members: members
    org_members,        \* report_contributors: org_members
    repos,              \* get_repos / get_contributors: repos
    missing_report,     \* names printed as "specified but not found"
    idx,                \* position in repos of the repository being analysed
    repo_contributors,  \* author name -> commits, current repository
    repo_authors,       \* login -> commits, current repository
    total_commits,      \* commits counted, current repository
    repos_detail,       \* repository name -> aggregate
    unique_contributors,
    unique_authors,
    error,              \* the exception that ended the run
    output,             \* the records written (none or one)
    served,             \* items served so far (environment)
    requested,          \* page indices requested by the running loop (history)
    pages,              \* non-empty pages accepted by the running loop (history)
    unlinked,           \* repository name -> commits counted without account (history)
    n_requests          \* requests issued, per endpoint (history)

vars ==
    <<pc, interesting_repos, response, page, members, org_members, repos,
      missing_report, idx, repo_contributors, repo_authors, total_commits,
      repos_detail, unique_contributors, unique_authors, error, output,
      served, requested, pages, unlinked, n_requests>>

NoError == [type |-> "none", status_code |-> 0, message |-> <<>>]

NoResponse ==
    [endpoint |-> "none", page |-> 0, status_code |-> 0, is_list |-> FALSE,
     items |-> <<>>, has_message |-> FALSE, message |-> <<>>]

\* A response carrying a JSON list.
ListResponse(e, p, s, items) ==
    [endpoint |-> e, page |-> p, status_code |-> s, is_list |-> TRUE,
     items |-> items, has_message |-> FALSE, message |-> <<>>]

\* An error response carrying a JSON object, with or without 'message'.
ErrorResponse(e, p, s, has, msg) ==
    [endpoint |-> e, page |-> p, status_code |-> s, is_list |-> FALSE,
     items |-> <<>>, has_message |-> has, message |-> msg]

\* JSON error objects of a 403: without 'message', or with one of Messages.
ErrorBodies == {<<FALSE, <<>> >>} \cup {<<TRUE, m>> : m \in Messages}

\* The JSON error object of any other error, whose text the code never reads.
PlainBody == <<TRUE, <<"Server", "Error">> >>

\* What the server may answer to the request for page p of endpoint e:
\*  - 200 and a list: empty, or as many items as it still has to serve;
\*  - another 2xx and a list (of at most one item);
\*  - 403 and one of the error objects Bodies403;
\*  - another error status and an error object.
Responses(e, p, ItemSet, Bodies403) ==
    {ListResponse(e, p, 200, items) :
        items \in {<<>>} \cup PagesOf(ItemSet, MaxItems - served)}
    \cup
    {ListResponse(e, p, s, items) :
        s \in ListStatuses \ {200},
        items \in {<<>>} \cup PagesOf(ItemSet, IF served < MaxItems THEN 1 ELSE 0)}
    \cup
    {ErrorResponse(e, p, 403, b[1], b[2]) : b \in Bodies403}
    \cup
    {ErrorResponse(e, p, s, PlainBody[1], PlainBody[2]) :
        s \in ErrorStatuses \ {403}}

WantedSets == {S \in SUBSET WantedNames : Cardinality(S) <= MaxWanted}

Init ==
    /\ pc = "get_organization_members"
    /\ interesting_repos \in WantedSets
    /\ response = NoResponse
    /\ page = 1
    /\ members = <<>>
    /\ org_members = {}
    /\ repos = <<>>
    /\ missing_report = {}
    /\ idx = 0
    /\ repo_contributors = EmptyDict
    /\ repo_authors = EmptyDict
    /\ total_commits = 0
    /\ repos_detail = EmptyDict
    /\ unique_contributors = {}
    /\ unique_authors = {}
    /\ error = NoError
    /\ output = <<>>
    /\ served = 0
    /\ requested = <<>>
    /\ pages = <<>>
    /\ unlinked = EmptyDict
    /\ n_requests = [members |-> 0, repos |-> 0, commits |-> 0]

\* NextPage stepping over a page.
NextPage_Skip(p) == p + 2

\* page += 1
NextPage(p) == p + 1

\* History of one request: the first request of a loop starts the loop's
\* history; `got` are the items the code kept from the response.
Issue(e, r) ==
    /\ response' = r
    /\ requested' = IF page = 1 THEN <<page>> ELSE Append(requested, page)
    /\ n_requests' = [n_requests EXCEPT ![e] = @ + 1]
    /\ served' = served + Len(r.items)

Keep(got) ==
    pages' = IF got = <<>>
             THEN (IF page = 1 THEN <<>> ELSE pages)
             ELSE (IF page = 1 THEN <<got>> ELSE Append(pages, got))

(* ------------------------------------------------------------------ *)
(* report_contributors: the record written at the end of a run         *)
(* ------------------------------------------------------------------ *)

\* Assemble with `|` written for `&`.
Assemble_Union(om, ua, rd) ==
    [organization |-> org_name,
     org_members |-> om,
     commit_authors |-> ua,
     commiting_members |-> ua \cup om,
     repos_detail |-> rd]

\* output_data; the date and the file name are left to the caller's clock.
Assemble(om, ua, rd) ==
    [organization |-> org_name,
     org_members |-> om,
     commit_authors |-> ua,
     commiting_members |-> ua \cap om,
     repos_detail |-> rd]

\* get_contributors returns (uc, ua, rd); report_contributors writes the record.
Finish(uc, ua, rd) ==
    /\ unique_contributors' = uc
    /\ unique_authors' = ua
    /\ repos_detail' = rd
    /\ output' = <<Assemble(org_members, ua, rd)>>
    /\ pc' = "done"

\* An exception nobody catches ends the run: nothing is written.
Raise(e) ==
    /\ error' = e
    /\ pc' = "aborted"
    /\ output' = output

(* ------------------------------------------------------------------ *)
(* get_organization_members                                            *)
(* ------------------------------------------------------------------ *)

Member(l) == [login |-> l]

\* {member['login'] for member in members}
LoginSet(ms) == {ms[i].login : i \in DOMAIN ms}

\* MembersContinue without the status test.
MembersContinue_NoStatusTest(r) == r.items # <<>>

\* The loop goes on after this response.
MembersContinue(r) == r.status_code = 200 /\ r.items # <<>>

MembersPage ==
    /\ pc = "get_organization_members"
    /\ \E r \in Responses("members", page, {Member(l) : l \in Logins}, {PlainBody}) :
        /\ Issue("members", r)
        /\ IF MembersContinue(r)
           THEN /\ members' = members \o r.items
                /\ page' = NextPage(page)
                /\ Keep(r.items)
                /\ UNCHANGED <<pc, org_members>>
           ELSE /\ org_members' = LoginSet(members)
                /\ members' = <<>>
                /\ page' = 1
                /\ Keep(<<>>)
                /\ pc' = "get_repos"
    /\ UNCHANGED <<interesting_repos, repos, missing_report, idx,
                   repo_contributors, repo_authors, total_commits,
                   repos_detail, unique_contributors, unique_authors,
                   error, output, unlinked>>

(* ------------------------------------------------------------------ *)
(* get_repos                                                           *)
(* ------------------------------------------------------------------ *)

\* response.json().get('message', 'Unknown error')
ErrorMessage(r) == IF r.has_message THEN r.message ELSE <<"Unknown", "error">>

\* 'rate limit exceeded' in error_message.lower()
IsRateLimit(msg) ==
    Contains(text_lower(msg), <<"rate", "limit", "exceeded">>)

\* The ValueError raised on a 403.
ForbiddenError(r) ==
    [type |-> IF IsRateLimit(ErrorMessage(r))
              THEN "RateLimitExceeded" ELSE "AccessDenied",
     status_code |-> r.status_code,
     message |-> ErrorMessage(r)]

\* The ValueError raised on any other status that is not 200.
RequestFailed(r) ==
    [type |-> "RequestFailed", status_code |-> r.status_code, message |-> <<>>]

\* RepoError without the `elif response.status_code != 200` branch.
RepoError_Only403(r) ==
    IF r.status_code = 403 THEN ForbiddenError(r) ELSE NoError

\* The exception get_repos raises on this response, if any.
RepoError(r) ==
    IF r.status_code = 403 THEN ForbiddenError(r)
    ELSE IF r.status_code # 200 THEN RequestFailed(r)
    ELSE NoError

(* ------------------------------------------------------------------ *)
(* get_contributors: the repository filter                             *)
(* ------------------------------------------------------------------ *)

\* {name.lower() for name in interesting_repos}
LowerSet(names) == {str_lower(n) : n \in names}

\* FilterRepos comparing the names as they are spelled.
FilterRepos_AsSpelled(rs, wanted) ==
    LET Match(repo) == repo.name \in wanted
    IN  SelectSeq(rs, Match)

\* [repo for repo in repos if repo['name'].lower() in interesting_repos_lower]
FilterRepos(rs, wanted) ==
    LET interesting_repos_lower == LowerSet(wanted)
        Match(repo) == str_lower(repo.name) \in interesting_repos_lower
    IN  SelectSeq(rs, Match)

\* MissingRepos comparing with the repository names as they are spelled.
MissingRepos_FoundAsSpelled(filtered, wanted) ==
    LowerSet(wanted) \ {filtered[i].name : i \in DOMAIN filtered}

\* missing_repos = interesting_repos_lower - found_repo_names
MissingRepos(filtered, wanted) ==
    LowerSet(wanted) \ {str_lower(filtered[i].name) : i \in DOMAIN filtered}

\* The warnings that may be printed: for each missing lower-case name, the
\* first name of interesting_repos that lower-cases to it.  interesting_repos
\* is a set of strings, whose iteration order is not fixed, so "first" is any.
MissingReports(filtered, wanted) ==
    LET missing == MissingRepos(filtered, wanted)
        picks == {f \in [missing -> wanted] :
                     \A m \in missing : str_lower(f[m]) = m}
    IN  {{f[m] : m \in missing} : f \in picks}

\* Candidates without `repos = filtered_repos`.
Candidates_Unfiltered(rs, wanted) == rs

\* The repositories get_contributors goes on with.
Candidates(rs, wanted) == IF wanted # {} THEN FilterRepos(rs, wanted) ELSE rs

\* Start of one iteration of `for repo in repos`.
StartRepo(i) ==
    /\ idx' = i
    /\ page' = 1
    /\ repo_contributors' = EmptyDict
    /\ repo_authors' = EmptyDict
    /\ total_commits' = 0

\* get_repos has returned: filter, report what is missing, and either return
\* at once (nothing to analyse) or enter the loop over the repositories.
AfterRepos ==
    LET filtered == Candidates(repos, interesting_repos) IN
    /\ repos' = filtered
    /\ IF interesting_repos # {}
       THEN missing_report' \in MissingReports(filtered, interesting_repos)
       ELSE missing_report' = missing_report
    /\ IF filtered = <<>>
       THEN /\ Finish({}, {}, EmptyDict)
            /\ UNCHANGED <<idx, page, repo_contributors, repo_authors,
                           total_commits>>
       ELSE /\ StartRepo(1)
            /\ pc' = "get_contributors"
            /\ UNCHANGED <<repos_detail, unique_contributors,
                           unique_authors, output>>
    /\ error' = error

ReposPage ==
    /\ pc = "get_repos"
    /\ \E r \in Responses("repos", page, {Repo(n) : n \in RepoNames}, ErrorBodies) :
        /\ Issue("repos", r)
        /\ IF RepoError(r) # NoError
           THEN /\ Raise(RepoError(r))
                /\ Keep(<<>>)
                /\ UNCHANGED <<repos, missing_report, idx, page,
                               repo_contributors, repo_authors, total_commits,
                               repos_detail, unique_contributors,
                               unique_authors>>
           ELSE IF r.items = <<>>
           THEN /\ AfterRepos
                /\ Keep(<<>>)
           ELSE /\ repos' = repos \o r.items
                /\ page' = NextPage(page)
                /\ Keep(r.items)
                /\ UNCHANGED <<pc, missing_report, idx, repo_contributors,
                               repo_authors, total_commits, repos_detail,
                               unique_contributors, unique_authors, error,
                               output>>
    /\ UNCHANGED <<interesting_repos, members, org_members, unlinked>>

(* ------------------------------------------------------------------ *)
(* get_contributors: the loop over the repositories                    *)
(* ------------------------------------------------------------------ *)

\* The counters of the repository being analysed, as one value.
Acc(tc, rc, ra) ==
    [total_commits |-> tc, repo_contributors |-> rc, repo_authors |-> ra,
     raised |-> FALSE]

\* CountCommit without the `if commit['author']` test: the login of a commit
\* without account is counted like any other.
CountCommit_NoAccountTest(acc, commit) ==
    LET tc == acc.total_commits + 1 IN
    IF commit.name = NoName
    THEN [acc EXCEPT !.total_commits = tc, !.raised = TRUE]
    ELSE [acc EXCEPT
            !.total_commits = tc,
            !.repo_contributors =
                Put(@, commit.name, Get(@, commit.name) + 1),
            !.repo_authors =
                Put(@, commit.author, Get(@, commit.author) + 1)]

\* One iteration of `for commit in commits_page`.  Reading the author name of
\* a commit that has none raises, after total_commits was incremented.
CountCommit(acc, commit) ==
    LET tc == acc.total_commits + 1 IN
    IF commit.name = NoName
    THEN [acc EXCEPT !.total_commits = tc, !.raised = TRUE]
    ELSE [acc EXCEPT
            !.total_commits = tc,
            !.repo_contributors =
                Put(@, commit.name, Get(@, commit.name) + 1),
            !.repo_authors =
                IF commit.author # NoAccount
                THEN Put(@, commit.author, Get(@, commit.author) + 1)
                ELSE @]

\* `for commit in commits_page`, up to the end of the page or to the exception.
RECURSIVE CountPage(_, _)
CountPage(acc, cs) ==
    IF cs = <<>> \/ acc.raised THEN acc
    ELSE CountPage(CountCommit(acc, Head(cs)), Tail(cs))

\* repos_detail[repo_name]
Detail(repo, tc, rc, ra) ==
    [repository_url |-> repo.html_url,
     total_commits |-> tc,
     unique_contributors_count |-> Cardinality(DOMAIN rc),
     unique_github_authors_count |-> Cardinality(DOMAIN ra),
     commit_authors |-> rc,
     github_authors |-> ra]

\* CommitsStop without the isinstance test.
CommitsStop_OnlyEmptyList(r) == r.is_list /\ r.items = <<>>

\* The pagination loop of a repository ends on this response.
CommitsStop(r) == ~r.is_list \/ r.items = <<>>

\* Pages the running loop has accepted (at page 1, none yet).
CurrentPages == IF page = 1 THEN <<>> ELSE pages

\* Commits without linked account among those the running loop counted.
Unlinked(ps) ==
    Len(SelectSeq(Concat(ps), LAMBDA c : c.author = NoAccount))

\* After the `while True` loop: store the aggregate, update the global sets,
\* and go to the next repository, or return and write the record.
EndRepo ==
    LET repo == repos[idx]
        rd == Put(repos_detail, repo.name,
                  Detail(repo, total_commits, repo_contributors, repo_authors))
        uc == unique_contributors \cup DOMAIN repo_contributors
        ua == unique_authors \cup DOMAIN repo_authors
    IN  /\ unlinked' = Put(unlinked, repo.name, Unlinked(CurrentPages))
        /\ IF idx = Len(repos)
           THEN /\ Finish(uc, ua, rd)
                /\ UNCHANGED <<idx, page, repo_contributors, repo_authors,
                               total_commits>>
           ELSE /\ StartRepo(idx + 1)
                /\ repos_detail' = rd
                /\ unique_contributors' = uc
                /\ unique_authors' = ua
                /\ UNCHANGED <<pc, output>>
        /\ error' = error

CommitsPage ==
    /\ pc = "get_contributors"
    /\ \E r \in Responses("commits", page, Commits, {PlainBody}) :
        /\ Issue("commits", r)
        /\ IF CommitsStop(r)
           THEN /\ EndRepo
                /\ Keep(<<>>)
           ELSE LET acc == CountPage(Acc(total_commits, repo_contributors,
                                         repo_authors), r.items)
                IN  /\ total_commits' = acc.total_commits
                    /\ repo_contributors' = acc.repo_contributors
                    /\ repo_authors' = acc.repo_authors
                    /\ IF acc.raised
                       THEN /\ Raise([type |-> "KeyError", status_code |-> 0,
                                      message |-> <<>>])
                            /\ page' = page
                            /\ Keep(<<>>)
                       ELSE /\ page' = NextPage(page)
                            /\ Keep(r.items)
                            /\ UNCHANGED <<pc, error, output>>
                    /\ UNCHANGED <<idx, repos_detail, unique_contributors,
                                   unique_authors, unlinked>>
    /\ UNCHANGED <<interesting_repos, members, org_members, repos,
                   missing_report>>

(* ------------------------------------------------------------------ *)
(* The run                                                             *)
(* ------------------------------------------------------------------ *)

Next == MembersPage \/ ReposPage \/ CommitsPage

Spec == Init /\ [][Next]_vars

(* ------------------------------------------------------------------ *)
(* Properties                                                          *)
(* ------------------------------------------------------------------ *)

Is2xx(status) == status \in 200..299

\* The pages of the loop that is running or has just ended, concatenated.
Collected == Concat(pages)

\* C1: after get_contributors has finished, in every aggregate of the result
\* the commit_authors counts add up to total_commits, and total_commits is the
\* sum of the github_authors counts plus the number of commits counted for
\* that repository that had no linked account.
C1_CountsAddUp ==
    pc = "done" =>
        \A n \in DOMAIN repos_detail :
            /\ Sum(repos_detail[n].commit_authors) = repos_detail[n].total_commits
            /\ repos_detail[n].total_commits
                   = Sum(repos_detail[n].github_authors) + unlinked[n]

\* A finished run whose result holds an aggregate of several commits, some
\* with and some without a linked account.
C1_Witness ==
    /\ pc = "done"
    /\ \E n \in DOMAIN repos_detail :
        /\ repos_detail[n].total_commits >= 2
        /\ unlinked[n] >= 1
        /\ Sum(repos_detail[n].github_authors) >= 1

\* C2: in every record written, commiting_members is exactly the
\* intersection of commit_authors and org_members (so a subset of each), and
\* these are the global login set and the member set of the run.
C2_Intersection ==
    \A i \in DOMAIN output :
        /\ \A l \in Logins \cup {NoAccount} :
              l \in output[i].commiting_members
                  <=> (l \in output[i].commit_authors /\ l \in output[i].org_members)
        /\ output[i].commiting_members \subseteq output[i].commit_authors
        /\ output[i].commiting_members \subseteq output[i].org_members
        /\ output[i].commit_authors = unique_authors
        /\ output[i].org_members = org_members

\* A record written with a login who committed and is a member, and another
\* who committed and is no member.
C2_Witness ==
    /\ output # <<>>
    /\ output[1].commiting_members # {}
    /\ output[1].commiting_members # output[1].commit_authors

\* C3: a 403 on a repository-listing request aborts the run without output,
\* with RateLimitExceeded if the message contains "rate limit" and with
\* AccessDenied otherwise.
C3_RateLimitOr403 ==
    (response.endpoint = "repos" /\ response.status_code = 403) =>
        /\ pc = "aborted"
        /\ output = <<>>
        /\ error.type =
              IF Contains(text_lower(ErrorMessage(response)), <<"rate", "limit">>)
              THEN "RateLimitExceeded" ELSE "AccessDenied"

\* The errors get_repos raises.
RepoErrors == {"RateLimitExceeded", "AccessDenied", "RequestFailed"}

\* C4 as stated: a repository-listing request aborts the run exactly when its
\* status is not 2xx; an aborted listing leaves no output and no commits
\* request, a listing of 2xx pages returns the concatenated list.
C4_AllOrNothing2xx ==
    response.endpoint = "repos" =>
        /\ pc = "aborted" <=> ~Is2xx(response.status_code)
        /\ pc = "aborted" =>
              /\ error.type \in RepoErrors
              /\ output = <<>>
              /\ n_requests.commits = 0
              /\ repos_detail = EmptyDict
        /\ pc = "get_repos" => repos = Collected
        /\ pc \in {"get_contributors", "done"} =>
              repos = Candidates(Collected, interesting_repos)

\* C4, amended: a repository-listing request aborts the run exactly when its
\* status is not 200, whatever was collected before: there is then an error,
\* no output, no aggregate and no commits request, now or later; when every
\* page came with status 200, the list get_repos returns (the one that is then
\* filtered) is the concatenation of the pages.
C4_AllOrNothing ==
    /\ response.endpoint = "repos" =>
        /\ pc = "aborted" <=> response.status_code # 200
        /\ pc = "get_repos" => repos = Collected
        /\ pc \in {"get_contributors", "done"} =>
              repos = Candidates(Collected, interesting_repos)
    /\ (pc = "aborted" /\ error.type \in RepoErrors) =>
        /\ response.endpoint = "repos"
        /\ output = <<>>
        /\ n_requests.commits = 0
        /\ repos_detail = EmptyDict
        /\ ~ENABLED Next

\* The listing fails on a later page, after pages that succeeded.
C4_Witness ==
    /\ pc = "aborted"
    /\ response.endpoint = "repos"
    /\ response.page >= 2
    /\ Len(Collected) >= 1
    /\ error.type = "RequestFailed"

MembersStopState ==
    response.endpoint = "members" =>
        /\ error = NoError
        /\ pc \in {"get_organization_members", "get_repos"}
        /\ pc = "get_organization_members" <=>
              (response.status_code = 200 /\ response.items # <<>>)
        /\ pc = "get_organization_members" => members = Collected
        /\ pc = "get_repos" =>
              /\ org_members = LoginSet(Collected)
              /\ Len(pages) = response.page - 1
              /\ n_requests.members = response.page

\* Once the listing has stopped, no member request is issued any more and the
\* member set stays as it is.
MembersStopStep ==
    pc # "get_organization_members" =>
        /\ n_requests'.members = n_requests.members
        /\ org_members' = org_members

C6_OnlyReposAbort ==
    pc = "aborted" => (response.endpoint = "repos" /\ error.type \in RepoErrors)

\* The aggregate of a repository whose commits cs were counted, from the
\* commits alone: how many there are, how many carry each author name and how
\* many are linked to each login.
Tally(cs, Key(_), keys) ==
    [k \in {Key(cs[i]) : i \in DOMAIN cs} \cap keys |->
        Cardinality({i \in DOMAIN cs : Key(cs[i]) = k})]

AggregateOf(repo, cs) ==
    LET NameOf(c) == c.name
        LoginOf(c) == c.author
        ca == Tally(cs, NameOf, AuthorNames)
        ga == Tally(cs, LoginOf, Logins)
    IN  [repository_url |-> repo.html_url,
         total_commits |-> Len(cs),
         unique_contributors_count |-> Cardinality(DOMAIN ca),
         unique_github_authors_count |-> Cardinality(DOMAIN ga),
         commit_authors |-> ca,
         github_authors |-> ga]

\* The counters of the repository being analysed are those of the pages served
\* for it in this loop, whatever happened to the repositories before.
OwnPagesOnly ==
    pc = "get_contributors" =>
        Detail(repos[idx], total_commits, repo_contributors, repo_authors)
            = AggregateOf(repos[idx], Concat(CurrentPages))

\* A step in which a commits page that is not a list arrives: the run does not
\* fail, the repository's aggregate is that of its earlier pages, no other
\* aggregate changes, and the run goes on with the next repository, whose
\* counters start from zero, or writes the record if there is none.
NotAListStep ==
    (pc = "get_contributors" /\ ~response'.is_list) =>
        /\ pc' # "aborted"
        /\ repos_detail' =
              Put(repos_detail, repos[idx].name,
                  AggregateOf(repos[idx], Concat(CurrentPages)))
        /\ IF idx < Len(repos)
           THEN /\ pc' = "get_contributors"
                /\ idx' = idx + 1
                /\ page' = 1
                /\ total_commits' = 0
                /\ repo_contributors' = EmptyDict
                /\ repo_authors' = EmptyDict
           ELSE /\ pc' = "done"
                /\ output' # <<>>
                /\ output'[1].repos_detail = repos_detail'

\* C7: a commits page that is not a list affects only its own repository: its
\* pagination stops there, its aggregate keeps exactly the counts of its
\* earlier pages, and the aggregate of every other repository is the one its
\* own pages give.
C7_NotAListIsLocal == []OwnPagesOnly /\ [][NotAListStep]_vars

\* The second page of a repository was not a list; the repository keeps the
\* commits of its first page and the next repository is being analysed.
C7_Witness ==
    /\ pc = "get_contributors"
    /\ response.endpoint = "commits"
    /\ ~response.is_list
    /\ response.page = 2
    /\ idx = 2
    /\ page = 1
    /\ repos[1].name # repos[2].name
    /\ repos_detail[repos[1].name].total_commits >= 1

\* Page indices 1, 2, 3, ... of the loop that is running or has just ended.
InOrder(req) == \A i \in DOMAIN req : req[i] = i

\* The loop that received the last response is still running.
Running ==
    \/ response.endpoint = "members" /\ pc = "get_organization_members"
    \/ response.endpoint = "repos" /\ pc = "get_repos"
    \/ response.endpoint = "commits" /\ pc = "get_contributors" /\ page > 1

\* The last response is a well-formed page of its endpoint.
GoodPage ==
    /\ response.endpoint # "none"
    /\ response.is_list
    /\ response.endpoint \in {"members", "repos"} => response.status_code = 200
    /\ response.endpoint = "commits" =>
          \A i \in DOMAIN response.items : response.items[i].name # NoName

C9_GlobalSetsAreUnions ==
    pc = "done" =>
        /\ unique_authors =
              UNION {DOMAIN repos_detail[n].github_authors : n \in DOMAIN repos_detail}
        /\ unique_contributors =
              UNION {DOMAIN repos_detail[n].commit_authors : n \in DOMAIN repos_detail}

\* Names equal up to case.
SameName(a, b) == str_lower(a) = str_lower(b)

\* The requested name has no match among the repositories kept.
Unmatched(n) == \A i \in DOMAIN repos : ~SameName(repos[i].name, n)

\* The filter has been applied.
Filtered == interesting_repos # {} /\ pc \in {"get_contributors", "done"}

\* C10 as stated: with a non-empty filter, the names reported as not found
\* are exactly the requested names without case-insensitive match, each as the
\* caller wrote it, and the run goes on with the repositories found.
C10_EveryMissingName ==
    Filtered =>
        /\ missing_report = {n \in interesting_repos : Unmatched(n)}
        /\ response.endpoint = "repos" =>
              repos = SelectSeq(Collected,
                        LAMBDA r : \E n \in interesting_repos : SameName(r.name, n))

\* C10, amended: with a non-empty filter, every name reported is a requested
\* name as the caller wrote it and has no case-insensitive match; for every
\* requested name without match exactly one requested name equal to it up to
\* case is reported (one of them when several differ only in case); and the
\* run goes on with the repositories found, in their order.
C10_MissingNames ==
    Filtered =>
        /\ missing_report \subseteq interesting_repos
        /\ \A m \in missing_report : Unmatched(m)
        /\ \A n \in interesting_repos :
              Unmatched(n) =>
                  Cardinality({m \in missing_report : SameName(m, n)}) = 1
        /\ response.endpoint = "repos" =>
              /\ repos = SelectSeq(Collected,
                           LAMBDA r : \E n \in interesting_repos : SameName(r.name, n))
              /\ repos # <<>> => (pc = "get_contributors" /\ idx = 1)

\* Wanted {"b", "Z"} over the repositories A, B: B is kept and "Z" reported.
C10_Witness ==
    /\ interesting_repos = {"b", "Z"}
    /\ response.endpoint = "repos"
    /\ Collected = <<Repo("A"), Repo("B")>>
    /\ repos = <<Repo("B")>>
    /\ missing_report = {"Z"}
    /\ pc = "get_contributors"

(* ------------------------------------------------------------------ *)
(* The repository filter on its own                                    *)
(* ------------------------------------------------------------------ *)

\* Repository names for the filter alone: "AB" contains both "A" and "B".
FilterRepoNames == {"A", "B", "AB"}

\* Names asked for: every repository name in both cases.
FilterWantedNames == {"A", "a", "B", "b", "AB", "ab"}

\* The lists get_repos may return.
RepoLists ==
    {<<>>} \cup PagesOf({Repo(n) : n \in FilterRepoNames}, MaxItems)

\* The INTERESTING_REPOS sets handed to get_contributors.
FilterWantedSets ==
    {S \in SUBSET FilterWantedNames : Cardinality(S) <= MaxWanted}

\* get_contributors at line 271: get_repos has just returned a list, read as
\* one page followed by the empty page that ended the loop.
InitFilter ==
    /\ pc = "filter"
    /\ interesting_repos \in FilterWantedSets
    /\ repos \in RepoLists
    /\ page = (IF repos = <<>> THEN 1 ELSE 2)
    /\ response = ListResponse("repos", page, 200, <<>>)
    /\ requested = (IF repos = <<>> THEN <<1>> ELSE <<1, 2>>)
    /\ pages = (IF repos = <<>> THEN <<>> ELSE <<repos>>)
    /\ served = Len(repos)
    /\ n_requests = [members |-> 0, repos |-> Len(requested), commits |-> 0]
    /\ members = <<>>
    /\ org_members = {}
    /\ missing_report = {}
    /\ idx = 0
    /\ repo_contributors = EmptyDict
    /\ repo_authors = EmptyDict
    /\ total_commits = 0
    /\ repos_detail = EmptyDict
    /\ unique_contributors = {}
    /\ unique_authors = {}
    /\ error = NoError
    /\ output = <<>>
    /\ unlinked = EmptyDict

\* Lines 274-319 applied to that list.
FilterStep ==
    /\ pc = "filter"
    /\ AfterRepos
    /\ UNCHANGED <<interesting_repos, response, members, org_members, served,
                   requested, pages, unlinked, n_requests>>

SpecFilter == InitFilter /\ [][FilterStep]_vars

\* Two spellings of one name.
CasePairs == {{"A", "a"}, {"B", "b"}, {"AB", "ab"}}

EqualUpToCase(a, b) == a = b \/ {a, b} \in CasePairs

\* V is W with some names written in another case.
Recased(V, W) ==
    /\ \A n \in W : \E m \in V : EqualUpToCase(m, n)
    /\ \A m \in V : \E n \in W : EqualUpToCase(m, n)

\* Name a is, up to case, a part of name b and shorter than it.
OnlyPartOf(a, b) ==
    \E x \in {"A", "a", "B", "b"} : EqualUpToCase(a, x) /\ EqualUpToCase(b, "AB")

\* The repositories of a list whose name is, up to case, one of the names.
ExactMatches(rs, wanted) ==
    LET Wanted(repo) == \E n \in wanted : EqualUpToCase(repo.name, n)
    IN  SelectSeq(rs, Wanted)

\* C11: once the filter has run on a list, with a non-empty set of wanted
\* names the list kept is the given list restricted, in its order, to the
\* repositories whose name equals a wanted name up to case; the same list is
\* obtained from every set that spells the same names in another case; a
\* repository of which a wanted name is only a part, and which no wanted name
\* names, is not kept; and with no wanted names the list is kept unchanged.
C11_FilterIgnoresCase ==
    pc # "filter" =>
        /\ interesting_repos = {} => repos = Collected
        /\ interesting_repos # {} =>
               repos = ExactMatches(Collected, interesting_repos)
        /\ \A V \in SUBSET FilterWantedNames :
               (V # {} /\ Recased(V, interesting_repos)) =>
                   Candidates(Collected, V) = repos
        /\ \A i \in DOMAIN Collected :
               ( /\ \E n \in interesting_repos :
                        OnlyPartOf(n, Collected[i].name)
                 /\ \A n \in interesting_repos :
                        ~EqualUpToCase(n, Collected[i].name) )
               => \A j \in DOMAIN repos : repos[j] # Collected[i]

\* Wanted {"a", "b"} over B, AB, A, B: AB is dropped, the rest kept in order.
C11_Witness ==
    /\ pc = "get_contributors"
    /\ interesting_repos = {"a", "b"}
    /\ Collected = <<Repo("B"), Repo("AB"), Repo("A"), Repo("B")>>
    /\ repos = <<Repo("B"), Repo("A"), Repo("B")>>

\* The candidate list is empty: the organization has no repository, or a
\* filter is set and names none of the repositories.
NoCandidates ==
    \/ Collected = <<>>
    \/ /\ interesting_repos # {}
       /\ \A i \in DOMAIN Collected :
              \A n \in interesting_repos : ~SameName(Collected[i].name, n)

\* C12: when get_repos has returned and the candidate list is empty, the run
\* is over without an exception, no commits request was issued, repos_detail
\* and both global sets are empty, and the report is written with them.
C12_NothingToAnalyse ==
    /\ (response.endpoint = "repos" /\ pc \in {"get_contributors", "done"}
            /\ NoCandidates)
       => repos = <<>>
    /\ (pc \in {"get_contributors", "done"} /\ repos = <<>>)
       => /\ pc = "done"
          /\ error = NoError
          /\ n_requests["commits"] = 0
          /\ repos_detail = EmptyDict
          /\ unique_contributors = {}
          /\ unique_authors = {}
          /\ output = <<Assemble(org_members, {}, EmptyDict)>>

\* Wanted {"Z"} over the repositories A, B: nothing matches.
C12_Witness ==
    /\ pc = "done"
    /\ interesting_repos = {"Z"}
    /\ response.endpoint = "repos"
    /\ Collected = <<Repo("A"), Repo("B")>>
    /\ repos = <<>>
    /\ n_requests["commits"] = 0
    /\ output # <<>>

====
